---- MODULE Spec2Model ----
(***************************************************************************)
(* Model of the Vector and Matrix containers of mathsci/datatypes.py (and  *)
(* of the souffle/datatypes.py variant where it differs).                  *)
(*                                                                         *)
(* Python lists are objects with identity: `self.data = data` stores a     *)
(* reference.  The model therefore keeps a heap of list objects; a Vector  *)
(* holds the address of its list, a Matrix the address of its list of row  *)
(* addresses.  A raised exception is recorded in `outcome`.                *)
(***************************************************************************)
EXTENDS Integers, Sequences, FiniteSets, TLC

VARIABLES heap,     \* address -> list object (sequence of numbers or of row addresses)
          vec,      \* the Vector object: [data, n_elems]
          mat,      \* the Matrix object: [data, n_rows, n_cols]
          caller,   \* references the calling code still holds: [L, rows, r]
          outcome,  \* last call on a container: [op, exc], with its key and result for v[key]
          args,     \* nested lists the operands of an operator are built from
          self,     \* left operand (receiver) of a Matrix operator
          other,    \* right operand of a Matrix operator
          ret,      \* what the last operator call returned or raised
          rhs,      \* right operand of a Vector operator: [data, n_elems]
          rvec      \* the Vector the last Vector operator returned: [data, n_elems]

memvars == <<heap, vec, mat, caller, outcome>>
opvars == <<args, self, other, ret, rhs, rvec>>
vars == <<heap, vec, mat, caller, outcome, args, self, other, ret, rhs, rvec>>

----------------------------------------------------------------------------
(* Bounds of the model *)

MaxAddr == 5       \* list objects alive at the same time
MaxLen == 3        \* longest Vector the structural operations build
MaxElem == 1       \* Vector elements are drawn from -MaxElem..MaxElem
MaxRows == 2       \* most rows the structural operations build
MaxCols == 2       \* longest row the structural operations build
MaxUnder == 2      \* remove_col is followed down to n_cols = -MaxUnder
MaxCells == 4      \* most elements in an operand of a Matrix operator

Addr == 1..MaxAddr
Elems == (0 - MaxElem)..MaxElem
Indices == (0 - (MaxLen + 1))..(MaxLen + 1)
\* two element values on which +, -, *, unary -, abs and == all differ
MatElems == {0 - 1, 2}
MaxDim == IF MaxRows > MaxCols THEN MaxRows ELSE MaxCols
MatIndices == (0 - (MaxDim + 1))..(MaxDim + 1)

NoRef == 0
NoCaller == [L |-> NoRef, rows |-> NoRef, r |-> NoRef]
EmptyHeap == [a \in Addr |-> << >>]
NoVector == [data |-> NoRef, n_elems |-> 0]
NoMatrix == [data |-> NoRef, n_rows |-> 0, n_cols |-> 0]

\* the sequences over S of length at most n
RECURSIVE SeqsUpTo(_, _)
SeqsUpTo(S, n) ==
    IF n = 0 THEN { << >> }
    ELSE LET shorter == SeqsUpTo(S, n - 1)
         IN  shorter \cup { Append(s, e) : s \in { t \in shorter : Len(t) = n - 1 }, e \in S }

\* the nested sequences with r rows of c elements
Rect(S, r, c) == [1..r -> [1..c -> S]]

\* arguments the calls are made with
VectorInputs == SeqsUpTo(Elems, MaxLen)
RowInputs == SeqsUpTo(MatElems, MaxCols)
ColInputs == SeqsUpTo(MatElems, MaxRows)
MatrixInputs == UNION { Rect(MatElems, r, c) : r \in 1..MaxRows, c \in 0..MaxCols }
NestedInputs == SeqsUpTo(RowInputs, MaxRows)
ZeroWidthInputs == UNION { Rect(MatElems, r, 0) : r \in 1..MaxRows }
OperandInputs ==
    UNION { Rect(MatElems, r, c) :
              <<r, c>> \in { p \in (1..MaxCells) \X (1..MaxCells) :
                                p[1] * p[2] <= MaxCells } }

----------------------------------------------------------------------------
(* Python list primitives used by the containers *)

\* Position (1-based) that a Python index names in a list of length n, 0 when
\* the index is out of range (IndexError).
PyIndex(n, idx) ==
    IF idx >= 0
    THEN IF idx < n THEN idx + 1 ELSE 0
    ELSE IF n + idx >= 0 THEN n + idx + 1 ELSE 0

\* the last element deleted whatever the index
ListDel_last(s, idx) == SubSeq(s, 1, Len(s) - 1)

\* del s[idx] for an index that names an element
ListDel(s, idx) ==
    LET p == PyIndex(Len(s), idx)
    IN  [k \in 1..(Len(s) - 1) |-> IF k < p THEN s[k] ELSE s[k + 1]]

\* s.insert(idx, value): the index is clamped to the ends, never an error
ListInsert(s, idx, value) ==
    LET n == Len(s)
        at == IF idx >= 0 THEN (IF idx > n THEN n ELSE idx)
              ELSE (IF n + idx < 0 THEN 0 ELSE n + idx)
    IN  [k \in 1..(n + 1) |-> IF k <= at THEN s[k]
                              ELSE IF k = at + 1 THEN value ELSE s[k - 1]]

\* ValueError(ERR_INPUT_BAD_DIMS), ValueError(ERR_OP_BAD_DIMS)
ERR_INPUT_BAD_DIMS == "Input data has incompatible dimensions"
ERR_OP_BAD_DIMS == "Operand has incompatible dimensions for element-wise operation"

\* a returned value or a raised exception of an operator call
Fail(op, exc) ==
    [op |-> op, kind |-> "none", exc |-> exc,
     data |-> << >>, n_rows |-> 0, n_cols |-> 0, value |-> FALSE]
RetMatrix(op, data, n_rows, n_cols) ==
    [op |-> op, kind |-> "Matrix", exc |-> "none",
     data |-> data, n_rows |-> n_rows, n_cols |-> n_cols, value |-> FALSE]
RetList(op, data) ==
    [op |-> op, kind |-> "list", exc |-> "none",
     data |-> data, n_rows |-> 0, n_cols |-> 0, value |-> FALSE]
RetBool(op, value) ==
    [op |-> op, kind |-> "bool", exc |-> "none",
     data |-> << >>, n_rows |-> 0, n_cols |-> 0, value |-> value]

\* no operator call is in progress
NoOperator ==
    /\ args = [self |-> << >>, other |-> << >>, binary |-> FALSE]
    /\ self = Fail("none", "none")
    /\ other = Fail("none", "none")
    /\ ret = Fail("none", "none")
    /\ rhs = NoVector
    /\ rvec = NoVector

Raised(op, exc) == [op |-> op, exc |-> exc]
Returned(op) == [op |-> op, exc |-> "none"]

----------------------------------------------------------------------------
(* Vector: structural mutation *)

\* Vector.__init__ with a list argument: the list itself is stored
Vector_init(h, data) == [data |-> data, n_elems |-> Len(h[data])]

\* the cached length left as it was
Vector_recount_stale(h, v) == v

\* self.n_elems = len(self.data), the last statement of every mutator
Vector_recount(h, v) == [v EXCEPT !.n_elems = Len(h[v.data])]

Vector_append(value) ==
    /\ vec.data # NoRef
    /\ Len(heap[vec.data]) < MaxLen
    /\ heap' = [heap EXCEPT ![vec.data] = Append(@, value)]
    /\ vec' = Vector_recount(heap', vec)
    /\ outcome' = Returned("append")
    /\ UNCHANGED <<mat, caller, opvars>>

Vector_prepend(value) ==
    /\ vec.data # NoRef
    /\ Len(heap[vec.data]) < MaxLen
    /\ heap' = [heap EXCEPT ![vec.data] = ListInsert(@, 0, value)]
    /\ vec' = Vector_recount(heap', vec)
    /\ outcome' = Returned("prepend")
    /\ UNCHANGED <<mat, caller, opvars>>

Vector_insert(idx, value) ==
    /\ vec.data # NoRef
    /\ Len(heap[vec.data]) < MaxLen
    /\ heap' = [heap EXCEPT ![vec.data] = ListInsert(@, idx, value)]
    /\ vec' = Vector_recount(heap', vec)
    /\ outcome' = Returned("insert")
    /\ UNCHANGED <<mat, caller, opvars>>

Vector_remove(idx) ==
    /\ vec.data # NoRef
    /\ IF PyIndex(Len(heap[vec.data]), idx) = 0
       THEN /\ outcome' = Raised("remove", "IndexError")
            /\ UNCHANGED <<heap, vec>>
       ELSE /\ heap' = [heap EXCEPT ![vec.data] = ListDel(@, idx)]
            /\ vec' = Vector_recount(heap', vec)
            /\ outcome' = Returned("remove")
    /\ UNCHANGED <<mat, caller, opvars>>

VectorStep ==
    \/ \E value \in Elems : Vector_append(value)
    \/ \E value \in Elems : Vector_prepend(value)
    \/ \E idx \in Indices, value \in Elems : Vector_insert(idx, value)
    \/ \E idx \in Indices : Vector_remove(idx)

\* Vector(L) for a list L the caller built, or Vector() (an empty list)
InitVector ==
    /\ \E L \in VectorInputs : heap = [EmptyHeap EXCEPT ![1] = L]
    /\ vec = Vector_init(heap, 1)
    /\ mat = NoMatrix
    /\ caller = NoCaller
    /\ outcome = Returned("Vector")
    /\ NoOperator

SpecVector == InitVector /\ [][VectorStep]_vars

\* C2: n_elems equals the number of stored elements in every state reached
\* from a constructed Vector by append, prepend, insert and remove calls,
\* failed calls included.
VectorShapeInvariant == vec.n_elems = Len(heap[vec.data])

\* a remove with an out-of-range index has failed on a non-empty Vector
VectorShapeWitness ==
    /\ outcome = Raised("remove", "IndexError")
    /\ Len(heap[vec.data]) = 2
    /\ vec.n_elems = 2

\* C20: remove(idx) on a Vector of length n with idx >= n or idx < -n raises
\* IndexError and leaves data and n_elems unchanged; with an index naming an
\* element it deletes exactly that element, keeps the others in order and
\* decreases n_elems by one.
RemoveContract ==
    [][\A idx \in Indices :
          Vector_remove(idx) =>
              LET s == heap[vec.data]
                  n == Len(s)
                  p == IF idx >= 0 THEN idx + 1 ELSE n + idx + 1
              IN  IF idx >= n \/ idx < 0 - n
                  THEN /\ outcome'.exc = "IndexError"
                       /\ vec' = vec
                       /\ heap'[vec'.data] = s
                  ELSE /\ outcome'.exc = "none"
                       /\ vec'.n_elems = vec.n_elems - 1
                       /\ heap'[vec'.data] =
                              SubSeq(s, 1, p - 1) \o SubSeq(s, p + 1, n)]_vars

\* an element has been removed from a Vector of three, two remain
RemoveContractWitness ==
    /\ outcome = Returned("remove")
    /\ vec.n_elems = 2
    /\ heap[vec.data] = <<1, 0 - 1>>

----------------------------------------------------------------------------
(* Vector: indexed access *)

\* a returned number
RetValue(op, x) ==
    [op |-> op, kind |-> "value", exc |-> "none",
     data |-> <<x>>, n_rows |-> 0, n_cols |-> 0, value |-> FALSE]

\* the index off by one from the end
Vector_at_short(h, v, k) ==
    LET idx == IF k >= 0 THEN k ELSE v.n_elems - 1 + k
        p == PyIndex(Len(h[v.data]), idx)
    IN  IF p = 0 THEN [exc |-> "IndexError", value |-> 0]
        ELSE [exc |-> "none", value |-> h[v.data][p]]

\* self.data[k] for k >= 0, self.data[self.n_elems + k] for k < 0: the
\* subscript is a Python list subscript in both cases
Vector_at(h, v, k) ==
    LET idx == IF k >= 0 THEN k ELSE v.n_elems + k
        p == PyIndex(Len(h[v.data]), idx)
    IN  IF p = 0 THEN [exc |-> "IndexError", value |-> 0]
        ELSE [exc |-> "none", value |-> h[v.data][p]]

\* for k in key: result.append(...)
RECURSIVE getitem_loop(_, _, _, _)
getitem_loop(h, v, key, result) ==
    IF Len(result) = Len(key) THEN RetList("getitem", result)
    ELSE LET e == Vector_at(h, v, key[Len(result) + 1])
         IN  IF e.exc # "none" THEN Fail("getitem", e.exc)
             ELSE getitem_loop(h, v, key, Append(result, e.value))

\* Vector.__getitem__ (both variants): key an integer, or a list or tuple
Vector_getitem(h, v, key, batch) ==
    IF batch THEN getitem_loop(h, v, key, << >>)
    ELSE LET e == Vector_at(h, v, key[1])
         IN  IF e.exc # "none" THEN Fail("getitem", e.exc)
             ELSE RetValue("getitem", e.value)

\* v[key]; the call is recorded with its key (the requested indices; batch
\* tells a list of indices from one integer) and with what it returned
getitem(key, batch) ==
    /\ vec.data # NoRef
    /\ \E r \in {Vector_getitem(heap, vec, key, batch)} :
          outcome' = [op |-> "getitem", exc |-> r.exc,
                      key |-> key, batch |-> batch, result |-> r]
    /\ UNCHANGED <<heap, vec, mat, caller, opvars>>

\* a list key of two indices
BatchKeys == { <<i, j>> : i \in Indices, j \in Indices }

AccessStep ==
    \/ \E k \in Indices : getitem(<<k>>, FALSE)
    \/ \E key \in BatchKeys \cup { << >> } : getitem(key, TRUE)

SpecAccess == InitVector /\ [][VectorStep \/ AccessStep]_vars

\* the index is outside -n .. n-1
OutOfRange(n, k) == k >= n \/ k < 0 - n

\* C15: v[index] on a Vector of length n with index >= n or index < -n
\* raises IndexError and returns no element; so does a list key that holds
\* such an index.
GetRejectsOutOfRange ==
    (/\ outcome.op = "getitem"
     /\ \E i \in 1..Len(outcome.key) :
           OutOfRange(Len(heap[vec.data]), outcome.key[i])) =>
        outcome.exc = "IndexError"

\* position (1-based) of the element an in-range index names
Resolve(n, k) == IF k >= 0 THEN k + 1 ELSE n + k + 1

\* C16: with -n <= index < 0, v[index] is the element v[n + index], whatever
\* append, prepend, insert and remove calls came before; a list key returns
\* one result per index, in request order, each resolved by the same rule.
NegativeIndexing ==
    outcome.op = "getitem" =>
        LET s == heap[vec.data]
            n == Len(s)
            key == outcome.key
        IN  (\A i \in 1..Len(key) : ~OutOfRange(n, key[i])) =>
                IF outcome.batch
                THEN outcome.result =
                        RetList("getitem",
                                [i \in 1..Len(key) |-> s[Resolve(n, key[i])]])
                ELSE outcome.result =
                        RetValue("getitem", s[Resolve(n, key[1])])

\* a list key with a negative and a non-negative index has been answered on
\* a Vector that grew to three elements
NegativeIndexingWitness ==
    /\ outcome.op = "getitem"
    /\ outcome.batch
    /\ outcome.key = <<0 - 1, 0>>
    /\ heap[vec.data] = <<0, 1, 0 - 1>>
    /\ outcome.result.data = <<0 - 1, 0>>

----------------------------------------------------------------------------
(* Object lifetime.  A list no reference leads to is reclaimed, and an     *)
(* address is only an identity: the live lists are kept at addresses 1..k  *)
(* in the order in which the references reach them.                        *)

Range(s) == { s[k] : k \in 1..Len(s) }

Elements(h, a) == IF a = NoRef THEN << >> ELSE h[a]

\* first occurrences of the references in s
RECURSIVE Dedup(_)
Dedup(s) ==
    IF s = << >> THEN << >>
    ELSE LET d == Dedup(SubSeq(s, 1, Len(s) - 1))
             x == s[Len(s)]
         IN  IF x = NoRef \/ x \in Range(d) THEN d ELSE Append(d, x)

\* the live lists: those of the containers and those the caller holds
Live(h, v, m, c) ==
    Dedup(<<v.data, m.data>> \o Elements(h, m.data)
          \o <<c.L, c.rows>> \o Elements(h, c.rows) \o <<c.r>>)

NewAddr(order, a) ==
    IF a = NoRef THEN NoRef ELSE CHOOSE k \in 1..Len(order) : order[k] = a

Collect(h, v, m, c) ==
    LET order == Live(h, v, m, c)
        outer == {m.data, c.rows} \ {NoRef}
        obj(a) == IF a \in outer
                  THEN [k \in 1..Len(h[a]) |-> NewAddr(order, h[a][k])]
                  ELSE h[a]
    IN  [heap |-> [k \in Addr |-> IF k <= Len(order) THEN obj(order[k]) ELSE << >>],
         vec |-> [v EXCEPT !.data = NewAddr(order, @)],
         mat |-> [m EXCEPT !.data = NewAddr(order, @)],
         caller |-> [L |-> NewAddr(order, c.L), rows |-> NewAddr(order, c.rows),
                     r |-> NewAddr(order, c.r)]]

\* address of a newly created list object
Fresh(h, v, m, c) == Len(Live(h, v, m, c)) + 1

HasFree(h, v, m, c) == Fresh(h, v, m, c) \in Addr

----------------------------------------------------------------------------
(* Matrix: structural mutation *)

\* the rows of a Matrix as a sequence of sequences
Rows(h, m) == [i \in 1..Len(h[m.data]) |-> h[h[m.data][i]]]

Result(h, m, exc) == [heap |-> h, mat |-> m, exc |-> exc]

\* the guard refusing only a row that is too long
Matrix_append_row_long_only(h, m, row) ==
    IF Len(h[row]) > m.n_cols /\ m.n_rows # 0
    THEN Result(h, m, ERR_INPUT_BAD_DIMS)
    ELSE LET h1 == [h EXCEPT ![m.data] = Append(@, row)]
         IN  Result(h1, [m EXCEPT !.n_rows = Len(h1[m.data])], "none")

\* append_row(row), row being the address of the caller's list
Matrix_append_row(h, m, row) ==
    IF Len(h[row]) # m.n_cols /\ m.n_rows # 0
    THEN Result(h, m, ERR_INPUT_BAD_DIMS)
    ELSE LET h1 == [h EXCEPT ![m.data] = Append(@, row)]
         IN  Result(h1, [m EXCEPT !.n_rows = Len(h1[m.data])], "none")

\* for i in range(self.n_rows): self.data[i].append(col[i])
RECURSIVE append_col_loop(_, _, _, _)
append_col_loop(h, m, col, i) ==
    IF i >= m.n_rows THEN Result(h, m, "none")
    ELSE IF i >= Len(h[m.data]) \/ i >= Len(col) THEN Result(h, m, "IndexError")
    ELSE append_col_loop([h EXCEPT ![h[m.data][i + 1]] = Append(@, col[i + 1])],
                         m, col, i + 1)

Matrix_append_col(h, m, col) ==
    IF Len(col) # m.n_rows /\ m.n_cols # 0
    THEN Result(h, m, ERR_INPUT_BAD_DIMS)
    ELSE LET l == append_col_loop(h, m, col, 0)
         IN  IF l.exc # "none" THEN l
             ELSE IF Len(l.heap[m.data]) = 0 THEN Result(l.heap, m, "IndexError")
             ELSE Result(l.heap,
                         [m EXCEPT !.n_cols = Len(l.heap[l.heap[m.data][1]])],
                         "none")

Matrix_remove_row(h, m, row_idx) ==
    IF PyIndex(Len(h[m.data]), row_idx) = 0
    THEN Result(h, m, "IndexError")
    ELSE Result([h EXCEPT ![m.data] = ListDel(@, row_idx)],
                [m EXCEPT !.n_rows = m.n_rows - 1], "none")

\* for row in range(self.n_rows): del self.data[row][col_idx]
RECURSIVE remove_col_loop(_, _, _, _)
remove_col_loop(h, m, col_idx, row) ==
    IF row >= m.n_rows THEN Result(h, m, "none")
    ELSE IF row >= Len(h[m.data]) THEN Result(h, m, "IndexError")
    ELSE IF PyIndex(Len(h[h[m.data][row + 1]]), col_idx) = 0
         THEN Result(h, m, "IndexError")
    ELSE remove_col_loop([h EXCEPT ![h[m.data][row + 1]] = ListDel(@, col_idx)],
                         m, col_idx, row + 1)

Matrix_remove_col(h, m, col_idx) ==
    LET l == remove_col_loop(h, m, col_idx, 0)
    IN  IF l.exc # "none" THEN l
        ELSE Result(l.heap, [m EXCEPT !.n_cols = m.n_cols - 1], "none")

\* the effect of a call on the program state
Effect(op, r) ==
    \E res \in {r} :
        \E n \in {Collect(res.heap, vec, res.mat, caller)} :
            /\ heap' = n.heap
            /\ vec' = n.vec
            /\ mat' = n.mat
            /\ caller' = n.caller
            /\ outcome' = [op |-> op, exc |-> res.exc]
            /\ UNCHANGED opvars

\* m.append_row([...]) with a list built for the call
append_row(row) ==
    /\ mat.data # NoRef
    /\ HasFree(heap, vec, mat, caller)
    /\ Len(heap[mat.data]) < MaxRows
    /\ \E a \in {Fresh(heap, vec, mat, caller)} :
          Effect("append_row", Matrix_append_row([heap EXCEPT ![a] = row], mat, a))

append_col(col) ==
    /\ mat.data # NoRef
    /\ \A i \in 1..Len(heap[mat.data]) : Len(heap[heap[mat.data][i]]) < MaxCols
    /\ Effect("append_col", Matrix_append_col(heap, mat, col))

remove_row(row_idx) ==
    /\ mat.data # NoRef
    /\ Effect("remove_row", Matrix_remove_row(heap, mat, row_idx))

remove_col(col_idx) ==
    /\ mat.data # NoRef
    /\ mat.n_cols > 0 - MaxUnder
    /\ Effect("remove_col", Matrix_remove_col(heap, mat, col_idx))

MatrixStep ==
    \/ \E row \in RowInputs : append_row(row)
    \/ \E col \in ColInputs : append_col(col)
    \/ \E row_idx \in MatIndices : remove_row(row_idx)
    \/ \E col_idx \in MatIndices : remove_col(col_idx)

\* Matrix.__init__ (mathsci) with a list of lists: the list itself is stored
Matrix_new(h, data) ==
    [data |-> data, n_rows |-> Len(h[data]), n_cols |-> Len(h[h[data][1]])]

\* rows 1..r of a nested sequence placed at addresses 2..r+1, their list at 1
HeapOf(rows) ==
    [a \in Addr |-> IF a = 1 THEN [i \in 1..Len(rows) |-> i + 1]
                    ELSE IF a - 1 \in 1..Len(rows) THEN rows[a - 1]
                    ELSE << >>]

\* Matrix(rows) for equal-length rows the caller built
InitMatrix ==
    /\ \E rows \in MatrixInputs : heap = HeapOf(rows)
    /\ mat = Matrix_new(heap, 1)
    /\ vec = NoVector
    /\ caller = NoCaller
    /\ outcome = Returned("Matrix")
    /\ NoOperator

SpecMatrix == InitMatrix /\ [][MatrixStep]_vars

\* C1: after any sequence of append_row, append_col, remove_row and
\* remove_col calls on a Matrix built from equal-length rows, n_rows is the
\* number of stored rows and every stored row has exactly n_cols elements.
MatrixShapeInvariant ==
    /\ mat.n_rows = Len(heap[mat.data])
    /\ \A i \in 1..Len(heap[mat.data]) : Len(Rows(heap, mat)[i]) = mat.n_cols

\* what a container holds and what it has cached
VectorContents(h, v) == IF v.data = NoRef THEN << >> ELSE h[v.data]
MatrixContents(h, m) == IF m.data = NoRef THEN << >> ELSE Rows(h, m)

\* C3: a call that raises leaves the receiver's stored data and its cached
\* counters as they were before the call.
FailureAtomicity ==
    [][outcome'.exc # "none" =>
          /\ vec' = vec
          /\ mat' = mat
          /\ VectorContents(heap', vec') = VectorContents(heap, vec)
          /\ MatrixContents(heap', mat') = MatrixContents(heap, mat)]_vars

----------------------------------------------------------------------------
(* Matrix: contracts of the structural operations *)

\* the stored rows are n_rows rows of n_cols elements
HasShape(h, m) ==
    /\ m.n_rows = Len(h[m.data])
    /\ \A i \in 1..Len(h[m.data]) : Len(h[h[m.data][i]]) = m.n_cols

\* the receiver is as it was before the call
ReceiverUnchanged ==
    /\ mat' = mat
    /\ MatrixContents(heap', mat') = MatrixContents(heap, mat)

\* C11: on a Matrix with n_rows = 0, append_row(row) succeeds for a row of
\* any length and leaves n_rows = 1 and n_cols = len(row).
FirstRowDefinesCols ==
    [][\A row \in RowInputs :
          (outcome'.op = "append_row" /\ mat.n_rows = 0 /\ append_row(row)) =>
              /\ outcome'.exc = "none"
              /\ mat'.n_rows = 1
              /\ mat'.n_cols = Len(row)]_vars

\* C12: append_row(row) with n_rows > 0 and len(row) # n_cols, and
\* append_col(col) with n_cols > 0 and len(col) # n_rows, raise the
\* invalid-shape error and leave data, n_rows and n_cols unchanged.
AppendShapeGuards ==
    [][/\ \A row \in RowInputs :
             (/\ outcome'.op = "append_row"
              /\ mat.n_rows > 0 /\ Len(row) # mat.n_cols
              /\ append_row(row)) =>
                 (outcome'.exc = ERR_INPUT_BAD_DIMS /\ ReceiverUnchanged)
       /\ \A col \in ColInputs :
             (/\ outcome'.op = "append_col"
              /\ mat.n_cols > 0 /\ Len(col) # mat.n_rows
              /\ append_col(col)) =>
                 (outcome'.exc = ERR_INPUT_BAD_DIMS /\ ReceiverUnchanged)]_vars

\* an append_col with a column of the wrong length has been refused on a
\* Matrix of two non-empty rows
AppendShapeGuardsWitness ==
    /\ outcome = Raised("append_col", ERR_INPUT_BAD_DIMS)
    /\ mat.n_rows = 2
    /\ mat.n_cols > 0
    /\ HasShape(heap, mat)

\* column j (1-based) of a nested sequence
Column(rows, j) == [i \in 1..Len(rows) |-> rows[i][j]]

\* C13: a successful append_row(row) on an r x c Matrix yields an
\* (r+1) x c Matrix whose last row is row and whose first r rows are
\* unchanged; a successful append_col(col) on an r x c Matrix, r >= 1,
\* yields an r x (c+1) Matrix whose last column is col and whose first c
\* columns are unchanged.
AppendFrameEffect ==
    [][/\ \A row \in RowInputs :
             (HasShape(heap, mat) /\ append_row(row) /\ outcome'.exc = "none") =>
                 /\ mat'.n_rows = mat.n_rows + 1
                 /\ mat'.n_cols = mat.n_cols
                 /\ HasShape(heap', mat')
                 /\ Rows(heap', mat') = Append(Rows(heap, mat), row)
       /\ \A col \in ColInputs :
             (/\ HasShape(heap, mat) /\ mat.n_rows >= 1
              /\ append_col(col) /\ outcome'.exc = "none") =>
                 /\ mat'.n_rows = mat.n_rows
                 /\ mat'.n_cols = mat.n_cols + 1
                 /\ HasShape(heap', mat')
                 /\ Column(Rows(heap', mat'), mat'.n_cols) = col
                 /\ \A i \in 1..mat.n_rows :
                       SubSeq(Rows(heap', mat')[i], 1, mat.n_cols) =
                           Rows(heap, mat)[i]]_vars

\* idx names no column: neither of the n_cols counted nor of a stored row
NoColumn(h, m, idx) ==
    /\ PyIndex(m.n_cols, idx) = 0
    /\ \A i \in 1..Len(h[m.data]) : PyIndex(Len(h[h[m.data][i]]), idx) = 0

\* C14: remove_row(i) with i naming no row and remove_col(j) with j naming
\* no column raise IndexError and do not decrement n_rows / n_cols, also on
\* a Matrix with zero rows or zero columns.
RemoveRejectsBadIndex ==
    [][/\ \A i \in MatIndices :
             (PyIndex(Len(heap[mat.data]), i) = 0 /\ remove_row(i)) =>
                 (outcome'.exc = "IndexError" /\ mat'.n_rows = mat.n_rows)
       /\ \A j \in MatIndices :
             (NoColumn(heap, mat, j) /\ remove_col(j)) =>
                 (outcome'.exc = "IndexError" /\ mat'.n_cols = mat.n_cols)]_vars

\* C23: in every state reached from a constructed Matrix by append_row,
\* append_col, remove_row and remove_col calls, n_rows >= 0 and n_cols >= 0.
CountersNonNegative == mat.n_rows >= 0 /\ mat.n_cols >= 0

----------------------------------------------------------------------------
(* Ownership: the calling code keeps the lists it passed in *)

\* r = [...] in the calling code
caller_build_row(row) ==
    /\ mat.data # NoRef
    /\ HasFree(heap, vec, mat, [caller EXCEPT !.r = NoRef])
    /\ \E a \in {Fresh(heap, vec, mat, [caller EXCEPT !.r = NoRef])} :
         \E n \in {Collect([heap EXCEPT ![a] = row], vec, mat,
                            [caller EXCEPT !.r = a])} :
            /\ heap' = n.heap
            /\ vec' = n.vec
            /\ mat' = n.mat
            /\ caller' = n.caller
    /\ outcome' = Returned("caller")
    /\ UNCHANGED opvars

\* m.append_row(r)
append_row_held ==
    /\ mat.data # NoRef
    /\ caller.r # NoRef
    /\ Len(heap[mat.data]) < MaxRows
    /\ Effect("append_row", Matrix_append_row(heap, mat, caller.r))

\* L.append(value) or r.append(value) in the calling code
caller_append(ref, value) ==
    /\ ref # NoRef
    /\ Len(heap[ref]) < (IF ref = vec.data THEN MaxLen ELSE MaxCols)
    /\ heap' = [heap EXCEPT ![ref] = Append(@, value)]
    /\ outcome' = Returned("caller")
    /\ UNCHANGED <<vec, mat, caller, opvars>>

\* del rows[-1] in the calling code
caller_del_row ==
    /\ caller.rows # NoRef
    /\ Len(heap[caller.rows]) > 0
    /\ \E n \in {Collect([heap EXCEPT ![caller.rows] = ListDel(@, 0 - 1)],
                           vec, mat, caller)} :
            /\ heap' = n.heap
            /\ vec' = n.vec
            /\ mat' = n.mat
            /\ caller' = n.caller
    /\ outcome' = Returned("caller")
    /\ UNCHANGED opvars

CallerStep ==
    \/ \E row \in RowInputs : caller_build_row(row)
    \/ \E value \in Elems : caller_append(caller.L, value)
    \/ \E value \in MatElems : caller_append(caller.r, value)
    \/ caller_del_row

OwnerStep == CallerStep \/ append_row_held \/ VectorStep \/ MatrixStep

\* L = [...]; v = Vector(L), the calling code keeping L
InitOwnerVector ==
    /\ \E L \in VectorInputs : heap = [EmptyHeap EXCEPT ![1] = L]
    /\ vec = Vector_init(heap, 1)
    /\ mat = NoMatrix
    /\ caller = [NoCaller EXCEPT !.L = 1]
    /\ outcome = Returned("Vector")
    /\ NoOperator

\* rows = [[...], ...]; m = Matrix(rows), the calling code keeping rows
InitOwnerMatrix ==
    /\ \E rows \in MatrixInputs : heap = HeapOf(rows)
    /\ mat = Matrix_new(heap, 1)
    /\ vec = NoVector
    /\ caller = [NoCaller EXCEPT !.rows = 1]
    /\ outcome = Returned("Matrix")
    /\ NoOperator

SpecOwner == (InitOwnerVector \/ InitOwnerMatrix) /\ [][OwnerStep]_vars

\* the lists of the calling code, by content
CallerView(h, c) ==
    [L |-> Elements(h, c.L),
     rows |-> [i \in 1..Len(Elements(h, c.rows)) |-> h[h[c.rows][i]]],
     r |-> Elements(h, c.r)]

\* C4: a mutation of L, rows or r by the caller changes nothing a container
\* holds, and a mutation of a container changes none of the caller's lists.
ExclusiveOwnership ==
    [][/\ outcome'.op = "caller" =>
             /\ VectorContents(heap', vec') = VectorContents(heap, vec)
             /\ MatrixContents(heap', mat') = MatrixContents(heap, mat)
       /\ outcome'.op # "caller" =>
             CallerView(heap', caller') = CallerView(heap, caller)]_vars

----------------------------------------------------------------------------
(* Matrix: construction and operators, on the values of the operands *)

\* Matrix.__init__ (mathsci) with a list argument
Matrix_init(data) ==
    IF Len(data) = 0 THEN Fail("Matrix", "IndexError")
    ELSE RetMatrix("Matrix", data, Len(data), Len(data[1]))

\* range(n) has no element for n <= 0
Count(n) == IF n < 0 THEN 0 ELSE n

\* [[0.0 for i in range(n_inner)] for j in range(n_outer)]
NewResult(n_inner, n_outer) == [j \in 1..n_outer |-> [i \in 1..n_inner |-> 0]]

\* nested[i][j] exists (i, j >= 0)
Has(nested, i, j) == i < Len(nested) /\ j < Len(nested[i + 1])

Loop(exc, data) == [exc |-> exc, data |-> data]

Apply(op, a, b) ==
    CASE op = "add" -> a + b
      [] op = "sub" -> a - b
      [] op = "mul" -> a * b

\* for i in range(self.n_rows): for j in range(self.n_cols):
\*     result[i][j] = self.data[i][j] op other.data[i][j]
\* k counts the assignments made
RECURSIVE elementwise_loop(_, _, _, _, _)
elementwise_loop(op, slf, oth, result, k) ==
    IF k >= Count(slf.n_rows) * Count(slf.n_cols) THEN Loop("none", result)
    ELSE LET i == k \div slf.n_cols
             j == k % slf.n_cols
         IN  IF ~(Has(slf.data, i, j) /\ Has(oth.data, i, j) /\ Has(result, i, j))
             THEN Loop("IndexError", result)
             ELSE elementwise_loop(op, slf, oth,
                      [result EXCEPT ![i + 1][j + 1] =
                           Apply(op, slf.data[i + 1][j + 1], oth.data[i + 1][j + 1])],
                      k + 1)

\* Matrix.__add__, __sub__, __mul__ (mathsci)
Matrix_elementwise(op, slf, oth) ==
    IF ~(slf.n_rows = oth.n_rows /\ slf.n_cols = oth.n_cols)
    THEN Fail(op, ERR_OP_BAD_DIMS)
    ELSE LET l == elementwise_loop(op, slf, oth,
                                   NewResult(slf.n_rows, slf.n_cols), 0)
         IN  IF l.exc # "none" THEN Fail(op, l.exc)
             ELSE [Matrix_init(l.data) EXCEPT !.op = op]

ApplyUnary(op, a) ==
    CASE op = "pos" -> a
      [] op = "neg" -> 0 - a
      [] op = "abs" -> IF a < 0 THEN 0 - a ELSE a

RECURSIVE unary_loop(_, _, _, _)
unary_loop(op, slf, result, k) ==
    IF k >= Count(slf.n_rows) * Count(slf.n_cols) THEN Loop("none", result)
    ELSE LET i == k \div slf.n_cols
             j == k % slf.n_cols
         IN  IF ~(Has(slf.data, i, j) /\ Has(result, i, j))
             THEN Loop("IndexError", result)
             ELSE unary_loop(op, slf,
                      [result EXCEPT ![i + 1][j + 1] =
                           ApplyUnary(op, slf.data[i + 1][j + 1])],
                      k + 1)

\* Matrix.__pos__, __neg__, __abs__ (mathsci): `return result`
Matrix_unary(op, slf) ==
    LET l == unary_loop(op, slf, NewResult(slf.n_rows, slf.n_cols), 0)
    IN  IF l.exc # "none" THEN Fail(op, l.exc) ELSE RetList(op, l.data)

RECURSIVE eq_loop(_, _, _)
eq_loop(slf, oth, k) ==
    IF k >= Count(slf.n_rows) * Count(slf.n_cols) THEN RetBool("eq", TRUE)
    ELSE LET i == k \div slf.n_cols
             j == k % slf.n_cols
         IN  IF ~(Has(slf.data, i, j) /\ Has(oth.data, i, j))
             THEN Fail("eq", "IndexError")
             ELSE IF slf.data[i + 1][j + 1] # oth.data[i + 1][j + 1]
             THEN RetBool("eq", FALSE)
             ELSE eq_loop(slf, oth, k + 1)

\* Matrix.__eq__ (both variants)
Matrix_eq(slf, oth) ==
    IF slf.n_rows # oth.n_rows /\ slf.n_cols # oth.n_cols
    THEN Fail("eq", ERR_OP_BAD_DIMS)
    ELSE eq_loop(slf, oth, 0)

RECURSIVE SumTo(_, _, _)
SumTo(a, b, n) == IF n = 0 THEN 0 ELSE SumTo(a, b, n - 1) + a[n] * b[n]

Min(a, b) == IF a < b THEN a ELSE b

\* what linalg.dot_product may do with sequences of unequal length: reject
\* them, sum over the common prefix (zip), or index the second sequence by
\* the positions of the first
LinalgModes == {"checked", "zip", "indexed"}

\* linalg.dot_product: the sum of the pairwise products of two sequences of
\* equal length
dot_product(a, b, linalg) ==
    IF Len(a) = Len(b) THEN [exc |-> "none", value |-> SumTo(a, b, Len(a))]
    ELSE IF linalg = "checked" THEN [exc |-> "LinalgError", value |-> 0]
    ELSE IF linalg = "indexed" /\ Len(a) > Len(b) THEN [exc |-> "IndexError", value |-> 0]
    ELSE [exc |-> "none", value |-> SumTo(a, b, Min(Len(a), Len(b)))]

RECURSIVE MinLen(_)
MinLen(rows) ==
    IF Len(rows) = 1 THEN Len(rows[1])
    ELSE Min(Len(rows[Len(rows)]), MinLen(SubSeq(rows, 1, Len(rows) - 1)))

\* zip(*rows): the columns, as many as the shortest row has elements
Zip(rows) ==
    IF Len(rows) = 0 THEN << >>
    ELSE [j \in 1..MinLen(rows) |-> [t \in 1..Len(rows) |-> rows[t][j]]]

\* for i in range(self.n_rows): for j in range(other.n_cols):
\*     result[i][j] = dot_product(self.data[i], zip(*other.data)[j])
RECURSIVE mul_matrix_loop(_, _, _, _, _)
mul_matrix_loop(slf, oth, linalg, result, k) ==
    IF k >= Count(slf.n_rows) * Count(oth.n_cols) THEN Loop("none", result)
    ELSE LET i == k \div oth.n_cols
             j == k % oth.n_cols
             cols == Zip(oth.data)
         IN  IF i >= Len(slf.data) \/ j >= Len(cols) THEN Loop("IndexError", result)
             ELSE LET d == dot_product(slf.data[i + 1], cols[j + 1], linalg)
                  IN  IF d.exc # "none" THEN Loop(d.exc, result)
                      ELSE IF ~Has(result, i, j) THEN Loop("IndexError", result)
                      ELSE mul_matrix_loop(slf, oth, linalg,
                               [result EXCEPT ![i + 1][j + 1] = d.value], k + 1)

\* Matrix.mul_matrix (both variants)
Matrix_mul_matrix(slf, oth, linalg) ==
    LET l == mul_matrix_loop(slf, oth, linalg,
                             NewResult(slf.n_rows, oth.n_cols), 0)
    IN  IF l.exc # "none" THEN Fail("mul_matrix", l.exc)
        ELSE [Matrix_init(l.data) EXCEPT !.op = "mul_matrix"]

\* self = Matrix(...), other = Matrix(...)
construct ==
    /\ ret.op = "none"
    /\ self' = Matrix_init(args.self)
    /\ other' = IF args.binary THEN Matrix_init(args.other) ELSE other
    /\ ret' = Matrix_init(args.self)
    /\ UNCHANGED <<args, memvars, rhs, rvec>>

Returns(value) ==
    /\ ret' = value
    /\ UNCHANGED <<args, self, other, memvars, rhs, rvec>>

eq ==
    /\ self.kind = "Matrix" /\ other.kind = "Matrix"
    /\ Returns(Matrix_eq(self, other))

elementwise(op) ==
    /\ self.kind = "Matrix" /\ other.kind = "Matrix"
    /\ Returns(Matrix_elementwise(op, self, other))

unary(op) ==
    /\ self.kind = "Matrix"
    /\ Returns(Matrix_unary(op, self))

mul_matrix(linalg) ==
    /\ self.kind = "Matrix" /\ other.kind = "Matrix"
    /\ Returns(Matrix_mul_matrix(self, other, linalg))

OpsStep ==
    \/ construct
    \/ eq
    \/ \E op \in {"add", "sub", "mul"} : elementwise(op)
    \/ \E op \in {"pos", "neg", "abs"} : unary(op)
    \/ \E linalg \in LinalgModes : mul_matrix(linalg)

\* the nested lists the operands are built from: equal-length rows for a
\* pair of operands (the right one possibly of width zero), any lists
\* (empty, zero-width, ragged) for a lone one
InitOps ==
    /\ \/ \E a \in OperandInputs, b \in OperandInputs :
             args = [self |-> a, other |-> b, binary |-> TRUE]
       \/ \E a \in NestedInputs :
             args = [self |-> a, other |-> << >>, binary |-> FALSE]
       \/ \E a \in OperandInputs, b \in ZeroWidthInputs :
             args = [self |-> a, other |-> b, binary |-> TRUE]
    /\ self = Fail("none", "none")
    /\ other = Fail("none", "none")
    /\ ret = Fail("none", "none")
    /\ rhs = NoVector
    /\ rvec = NoVector
    /\ heap = EmptyHeap
    /\ vec = NoVector
    /\ mat = NoMatrix
    /\ caller = NoCaller
    /\ outcome = Returned("none")

SpecOps == InitOps /\ [][OpsStep]_vars

\* two rows of different lengths
IsRagged(rows) == \E i, j \in 1..Len(rows) : Len(rows[i]) # Len(rows[j])

\* a Matrix of shape n_rows x n_cols
IsShaped(m) ==
    /\ m.kind = "Matrix"
    /\ Len(m.data) = m.n_rows
    /\ \A i \in 1..Len(m.data) : Len(m.data[i]) = m.n_cols

\* m is a Matrix of shape r x c whose cell (i, j) is cell[i][j]
IsMatrixOf(m, r, c, cell) ==
    /\ IsShaped(m)
    /\ m.n_rows = r
    /\ m.n_cols = c
    /\ \A i \in 1..r, j \in 1..c : m.data[i][j] = cell[i][j]

\* C5: constructing a Matrix from rows of which two differ in length fails
\* with the invalid-shape error; no Matrix with ragged rows is produced.
RaggedConstructionFails ==
    (ret.op = "Matrix" /\ IsRagged(args.self)) =>
        (ret.kind # "Matrix" /\ ret.exc = ERR_INPUT_BAD_DIMS)

\* C6: x == y on operands that differ in n_rows or in n_cols raises the
\* dimension-mismatch error: it returns neither true nor false and raises
\* nothing else.
EqRejectsMismatch ==
    (ret.op = "eq" /\ (self.n_rows # other.n_rows \/ self.n_cols # other.n_cols)) =>
        ret.exc = ERR_OP_BAD_DIMS

\* C7: for operands of one shape r x c, square or not, x + y, x - y and
\* x * y return a new r x c Matrix whose cell (i, j) is x[i][j] op y[i][j],
\* and leave x and y as they were.
ElementwiseCorrect ==
    [][(/\ ret'.op \in {"add", "sub", "mul"}
        /\ IsShaped(self) /\ IsShaped(other)
        /\ self.n_rows = other.n_rows /\ self.n_cols = other.n_cols) =>
          /\ IsMatrixOf(ret', self.n_rows, self.n_cols,
                        [i \in 1..self.n_rows |-> [j \in 1..self.n_cols |->
                            Apply(ret'.op, self.data[i][j], other.data[i][j])]])
          /\ self' = self
          /\ other' = other]_vars

\* sum over t of a[i][t] * b[t][j]
RECURSIVE CellProduct(_, _, _, _, _)
CellProduct(a, b, i, j, t) ==
    IF t = 0 THEN 0 ELSE CellProduct(a, b, i, j, t - 1) + a[i][t] * b[t][j]

\* C8: for A (m x k) and B (k x n), A.mul_matrix(B) returns an m x n Matrix
\* whose cell (i, j) is the dot product of row i of A and column j of B,
\* whether or not m = n.
MulMatrixCorrect ==
    (/\ ret.op = "mul_matrix"
     /\ IsShaped(self) /\ IsShaped(other)
     /\ self.n_cols = other.n_rows) =>
        IsMatrixOf(ret, self.n_rows, other.n_cols,
                   [i \in 1..self.n_rows |-> [j \in 1..other.n_cols |->
                       CellProduct(self.data, other.data, i, j, self.n_cols)]])

\* the errors that report operands of incompatible dimensions
DimensionMismatch == {ERR_OP_BAD_DIMS, "LinalgError"}

\* C9: mul_matrix on operands with self.n_cols # other.n_rows raises a
\* dimension-mismatch error and returns no Matrix.
MulMatrixRejectsMismatch ==
    (/\ ret.op = "mul_matrix"
     /\ IsShaped(self) /\ IsShaped(other)
     /\ self.n_cols # other.n_rows) =>
        (ret.kind # "Matrix" /\ ret.exc \in DimensionMismatch)

\* C10: +m, -m and abs(m) on a Matrix of any shape r x c return a new
\* Matrix (not a nested list) of that shape whose cell (i, j) is the unary
\* operator applied to m[i][j], and leave m as it was.
UnaryCorrect ==
    [][(ret'.op \in {"pos", "neg", "abs"} /\ IsShaped(self)) =>
          /\ IsMatrixOf(ret', self.n_rows, self.n_cols,
                        [i \in 1..self.n_rows |-> [j \in 1..self.n_cols |->
                            ApplyUnary(ret'.op, self.data[i][j])]])
          /\ self' = self]_vars

----------------------------------------------------------------------------
(* Vector: operators.  The receiver's list is at vec.data, the right       *)
(* operand's at rhs.data; an operator builds its result in a new list.     *)
(* Operands are Vectors, so the isinstance checks pass.                    *)

MaxOperandLen == 2    \* longest operand of a Vector operator

\* element values of the operands: a negative number, zero, a positive one
OpElems == {0 - 1, 0, 2}
OperandVectors == SeqsUpTo(OpElems, MaxOperandLen)
\* the right operands: with and without a zero to divide by
RightOperands == SeqsUpTo({0, 2}, MaxOperandLen)

\* a / b on Python 2 integers: the floor of the quotient (b # 0)
PyDiv(a, b) == IF b > 0 THEN a \div b ELSE (0 - a) \div (0 - b)

\* True and False are the integers 1 and 0
PyBool(b) == IF b THEN 1 ELSE 0

\* subtraction with its operands exchanged
VecApply_reversed(op, a, b) ==
    CASE op \in {"add", "add_scalar"} -> a + b
      [] op \in {"sub", "sub_scalar"} -> b - a
      [] op \in {"mul", "mul_scalar"} -> a * b
      [] op \in {"div", "div_scalar"} -> PyDiv(a, b)
      [] op = "lt" -> PyBool(a < b)
      [] op = "gt" -> PyBool(a > b)
      [] op = "le" -> PyBool(a <= b)
      [] op = "ge" -> PyBool(a >= b)

\* self.data[i] op other.data[i], result[i] op= value
VecApply(op, a, b) ==
    CASE op \in {"add", "add_scalar"} -> a + b
      [] op \in {"sub", "sub_scalar"} -> a - b
      [] op \in {"mul", "mul_scalar"} -> a * b
      [] op \in {"div", "div_scalar"} -> PyDiv(a, b)
      [] op = "lt" -> PyBool(a < b)
      [] op = "gt" -> PyBool(a > b)
      [] op = "le" -> PyBool(a <= b)
      [] op = "ge" -> PyBool(a >= b)

Divides(op) == op \in {"div", "div_scalar"}

\* a returned Vector (the object itself is the second component of Called)
RetVector(op) ==
    [op |-> op, kind |-> "Vector", exc |-> "none",
     data |-> << >>, n_rows |-> 0, n_cols |-> 0, value |-> FALSE]

\* the state a call leaves: the heap, the Vector it returned, what it
\* returned or raised
Called(h, v, r) == [heap |-> h, vec |-> v, ret |-> r]

\* return Vector(result), result being the list at address a
ReturnVector(op, h, a) == Called(h, Vector_init(h, a), RetVector(op))

\* for i in range(self.n_elems): result.append(self.data[i] op other.data[i])
RECURSIVE binary_loop(_, _, _, _, _)
binary_loop(op, s, t, n, result) ==
    IF Len(result) >= n THEN Loop("none", result)
    ELSE LET i == Len(result) + 1
         IN  IF i > Len(s) \/ i > Len(t) THEN Loop("IndexError", result)
             ELSE IF Divides(op) /\ t[i] = 0 THEN Loop("ZeroDivisionError", result)
             ELSE binary_loop(op, s, t, n, Append(result, VecApply(op, s[i], t[i])))

\* Vector.__add__, __sub__, __mul__, __div__, __lt__, __gt__, __le__, __ge__;
\* a is the address of the list the result is built in
Vector_binary(op, h, v, w, a) ==
    IF v.n_elems # w.n_elems THEN Called(h, NoVector, Fail(op, ERR_OP_BAD_DIMS))
    ELSE LET l == binary_loop(op, h[v.data], h[w.data], v.n_elems, << >>)
         IN  IF l.exc # "none" THEN Called(h, NoVector, Fail(op, l.exc))
             ELSE ReturnVector(op, [h EXCEPT ![a] = l.data], a)

\* for i in range(self.n_elems): result.append(op self.data[i])
RECURSIVE Vector_unary_loop(_, _, _, _)
Vector_unary_loop(op, s, n, result) ==
    IF Len(result) >= n THEN Loop("none", result)
    ELSE LET i == Len(result) + 1
         IN  IF i > Len(s) THEN Loop("IndexError", result)
             ELSE Vector_unary_loop(op, s, n, Append(result, ApplyUnary(op, s[i])))

\* Vector.__pos__, __neg__, __abs__
Vector_unary(op, h, v, a) ==
    LET l == Vector_unary_loop(op, h[v.data], v.n_elems, << >>)
    IN  IF l.exc # "none" THEN Called(h, NoVector, Fail(op, l.exc))
        ELSE ReturnVector(op, [h EXCEPT ![a] = l.data], a)

\* for i, v in enumerate(result): result[i] op= value, on the list at a
RECURSIVE scalar_loop(_, _, _, _, _)
scalar_loop(op, h, a, value, i) ==
    IF i >= Len(h[a]) THEN [exc |-> "none", heap |-> h]
    ELSE IF Divides(op) /\ value = 0 THEN [exc |-> "ZeroDivisionError", heap |-> h]
    ELSE scalar_loop(op, [h EXCEPT ![a][i + 1] = VecApply(op, @, value)],
                     a, value, i + 1)

\* result = self.data, without the copy
Vector_scalar_shared(op, h, v, value, a) ==
    LET l == scalar_loop(op, h, v.data, value, 0)
    IN  IF l.exc # "none" THEN Called(l.heap, NoVector, Fail(op, l.exc))
        ELSE ReturnVector(op, l.heap, v.data)

\* Vector.add_scalar, sub_scalar, mul_scalar, div_scalar:
\* result = self.data[:] is a new list, at address a
Vector_scalar(op, h, v, value, a) ==
    LET l == scalar_loop(op, [h EXCEPT ![a] = h[v.data]], a, value, 0)
    IN  IF l.exc # "none" THEN Called(h, NoVector, Fail(op, l.exc))
        ELSE ReturnVector(op, l.heap, a)

RECURSIVE Vector_eq_loop(_, _, _, _)
Vector_eq_loop(s, t, n, i) ==
    IF i >= n THEN RetBool("eq", TRUE)
    ELSE IF i >= Len(s) \/ i >= Len(t) THEN Fail("eq", "IndexError")
    ELSE IF s[i + 1] # t[i + 1] THEN RetBool("eq", FALSE)
    ELSE Vector_eq_loop(s, t, n, i + 1)

\* unequal lengths compare as unequal
Vector_eq_lenient(h, v, w) ==
    IF v.n_elems # w.n_elems THEN RetBool("eq", FALSE)
    ELSE Vector_eq_loop(h[v.data], h[w.data], v.n_elems, 0)

\* Vector.__eq__
Vector_eq(h, v, w) ==
    IF v.n_elems # w.n_elems THEN Fail("eq", ERR_OP_BAD_DIMS)
    ELSE Vector_eq_loop(h[v.data], h[w.data], v.n_elems, 0)

\* Vector.dot_product
Vector_dot_product(h, v, w, linalg) ==
    IF v.n_elems # w.n_elems THEN Fail("dot_product", ERR_OP_BAD_DIMS)
    ELSE LET d == dot_product(h[v.data], h[w.data], linalg)
         IN  IF d.exc # "none" THEN Fail("dot_product", d.exc)
             ELSE RetValue("dot_product", d.value)

\* the state after u = <operator call>: a returned Vector is bound to rvec
\* and its list is in the heap; the Vector an earlier call returned is
\* dropped before the call (del u); args.other keeps a scalar argument
VecCall(op, r, scalars) ==
    /\ heap' = IF r.ret.kind = "Vector" THEN r.heap
               ELSE [r.heap EXCEPT ![rhs.data + 1] = << >>]
    /\ rvec' = r.vec
    /\ ret' = [r.ret EXCEPT !.op = op]
    /\ outcome' = [op |-> op, exc |-> r.ret.exc]
    /\ args' = [self |-> << >>, other |-> scalars, binary |-> FALSE]
    /\ UNCHANGED <<vec, rhs, mat, caller, self, other>>

VecEffect(op, r) == VecCall(op, r, << >>)

\* address of the list a call creates, and of the lists of intermediate
\* results
NewList == rhs.data + 1
Temp1 == rhs.data + 2
Temp2 == rhs.data + 3

BinaryOps == {"add", "sub", "mul", "div", "lt", "gt", "le", "ge"}
UnaryOps == {"pos", "neg", "abs"}
ScalarOps == {"add_scalar", "sub_scalar", "mul_scalar", "div_scalar"}

\* v + w, v - w, v * w, v / w, v < w, v > w, v <= w, v >= w
binary_op(op) ==
    VecEffect(op, Vector_binary(op, heap, vec, rhs, NewList))

\* v == w
eq_op ==
    VecEffect("eq", Called(heap, NoVector, Vector_eq(heap, vec, rhs)))

\* v.dot_product(w)
dot_product_op(linalg) ==
    VecEffect("dot_product",
              Called(heap, NoVector, Vector_dot_product(heap, vec, rhs, linalg)))

\* +v, -v, abs(v)
unary_op(op) ==
    VecEffect(op, Vector_unary(op, heap, vec, NewList))

\* v.add_scalar(value), ...
scalar_op(op, value) ==
    VecCall(op, Vector_scalar(op, heap, vec, value, NewList), <<value>>)

\* the intermediate results are dropped when the expression is evaluated
Evaluated(op, h, r) ==
    VecEffect(op, Called([h EXCEPT ![Temp1] = << >>, ![Temp2] = << >>],
                         NoVector, r))

\* (v + w) - w == v
add_sub_eq ==
    LET r1 == Vector_binary("add", heap, vec, rhs, Temp1)
        r2 == IF r1.ret.exc # "none" THEN r1
              ELSE Vector_binary("sub", r1.heap, r1.vec, rhs, Temp2)
        r3 == IF r2.ret.exc # "none" THEN r2.ret
              ELSE Vector_eq(r2.heap, r2.vec, vec)
    IN  Evaluated("add_sub_eq", r2.heap, r3)

\* v + w == w + v
add_commutes ==
    LET r1 == Vector_binary("add", heap, vec, rhs, Temp1)
        r2 == IF r1.ret.exc # "none" THEN r1
              ELSE Vector_binary("add", r1.heap, rhs, vec, Temp2)
        r3 == IF r2.ret.exc # "none" THEN r2.ret
              ELSE Vector_eq(r2.heap, r1.vec, r2.vec)
    IN  Evaluated("add_commutes", r2.heap, r3)

\* u = <operator call>; u.append(value)
result_append(value) ==
    /\ ret.kind = "Vector"
    /\ heap' = [heap EXCEPT ![rvec.data] = Append(@, value)]
    /\ rvec' = Vector_recount(heap', rvec)
    /\ ret' = Fail("append", "none")
    /\ outcome' = Returned("append")
    /\ UNCHANGED <<vec, rhs, mat, caller, args, self, other>>

\* u = <operator call>; u.remove(idx)
result_remove(idx) ==
    /\ ret.kind = "Vector"
    /\ IF PyIndex(Len(heap[rvec.data]), idx) = 0
       THEN /\ ret' = Fail("remove", "IndexError")
            /\ outcome' = Raised("remove", "IndexError")
            /\ UNCHANGED <<heap, rvec>>
       ELSE /\ heap' = [heap EXCEPT ![rvec.data] = ListDel(@, idx)]
            /\ rvec' = Vector_recount(heap', rvec)
            /\ ret' = Fail("remove", "none")
            /\ outcome' = Returned("remove")
    /\ UNCHANGED <<vec, rhs, mat, caller, args, self, other>>

VectorOpsStep ==
    \/ \E op \in BinaryOps : binary_op(op)
    \/ eq_op
    \/ \E linalg \in LinalgModes : dot_product_op(linalg)
    \/ \E op \in UnaryOps : unary_op(op)
    \/ \E op \in ScalarOps, value \in OpElems : scalar_op(op, value)
    \/ add_sub_eq
    \/ add_commutes
    \/ \E value \in OpElems : result_append(value)
    \/ \E idx \in {0 - 1, 0} : result_remove(idx)

\* v = Vector([...]); w = Vector([...])
InitVectorOps ==
    /\ \E a \in OperandVectors, b \in RightOperands :
          heap = [EmptyHeap EXCEPT ![1] = a, ![2] = b]
    /\ vec = Vector_init(heap, 1)
    /\ rhs = Vector_init(heap, 2)
    /\ rvec = NoVector
    /\ mat = NoMatrix
    /\ caller = NoCaller
    /\ outcome = Returned("Vector")
    /\ args = [self |-> << >>, other |-> << >>, binary |-> FALSE]
    /\ self = Fail("none", "none")
    /\ other = Fail("none", "none")
    /\ ret = Fail("none", "none")

SpecVectorOps == InitVectorOps /\ [][VectorOpsStep]_vars

\* the operands are as they were before the call
OperandsUnchanged ==
    /\ vec' = vec
    /\ rhs' = rhs
    /\ heap'[vec.data] = heap[vec.data]
    /\ heap'[rhs.data] = heap[rhs.data]

\* C17: +, -, *, /, <, >, <=, >=, == and dot_product on two Vectors with
\* unequal n_elems raise the dimension-mismatch error and leave both operands
\* unchanged; == does not return false.
BinaryRejectsMismatch ==
    [][(/\ ret'.op \in BinaryOps \cup {"eq", "dot_product"}
        /\ vec.n_elems # rhs.n_elems) =>
          /\ ret'.exc = ERR_OP_BAD_DIMS
          /\ ret'.kind = "none"
          /\ OperandsUnchanged]_vars

\* v == w has been refused for a Vector of two and a Vector of one element
BinaryRejectsMismatchWitness ==
    /\ ret.op = "eq"
    /\ ret.exc = ERR_OP_BAD_DIMS
    /\ vec.n_elems = 2
    /\ rhs.n_elems = 1

\* C18: for Vectors a and b of equal length with integer elements,
\* (a + b) - b == a is true and a + b == b + a is true.
AddSubRoundTrip ==
    (ret.op \in {"add_sub_eq", "add_commutes"} /\ vec.n_elems = rhs.n_elems) =>
        ret = RetBool(ret.op, TRUE)

\* (a + b) - b == a has been evaluated on two different Vectors of two
\* elements
AddSubRoundTripWitness ==
    /\ ret = RetBool("add_sub_eq", TRUE)
    /\ heap[vec.data] = <<0 - 1, 2>>
    /\ heap[rhs.data] = <<2, 0>>

\* the call divides by zero
DividesByZero(op, s, t, value) ==
    \/ op = "div" /\ \E i \in 1..Len(t) : t[i] = 0
    \/ op = "div_scalar" /\ value = 0 /\ Len(s) > 0

\* the call has returned a new Vector of the receiver's length that shares
\* no list with an operand
ReturnedNewVector ==
    /\ ret'.kind = "Vector"
    /\ rvec'.n_elems = vec.n_elems
    /\ Len(heap'[rvec'.data]) = vec.n_elems
    /\ rvec'.data \notin {vec.data, rhs.data}

\* ... unless it divides by zero
ReturnedUnless(zero) ==
    /\ OperandsUnchanged
    /\ IF zero THEN ret'.exc = "ZeroDivisionError" ELSE ReturnedNewVector

----------------------------------------------------------------------------
(* The souffle variant: Matrix construction and equality *)

ERR_INPUT_INVALID == "Input data is invalid"
ERR_ROW_LENS == "Row lengths are not all equal"

\* elem in row
Member(elem, row) == \E k \in 1..Len(row) : row[k] = elem

\* [[elem in row for elem in row] for row in data]
Memberships(data) ==
    [i \in 1..Len(data) |->
        [j \in 1..Len(data[i]) |-> PyBool(Member(data[i][j], data[i]))]]

\* [len(row) for row in self.data]
row_lens(data) == [i \in 1..Len(data) |-> Len(data[i])]

\* Matrix.__init__ (souffle) with a list argument
souffle_Matrix_init(data) ==
    IF Len(data) = 0 THEN Fail("Matrix", ERR_INPUT_INVALID)
    ELSE LET lens == row_lens(Memberships(data))
         IN  IF Tail(lens) # SubSeq(lens, 1, Len(lens) - 1)
             THEN Fail("Matrix", ERR_ROW_LENS)
             ELSE RetMatrix("Matrix", Memberships(data), Len(data), Len(data[1]))

\* self = Matrix(...), other = Matrix(...)
souffle_construct ==
    /\ ret.op = "none"
    /\ self' = souffle_Matrix_init(args.self)
    /\ other' = IF args.binary THEN souffle_Matrix_init(args.other) ELSE other
    /\ ret' = souffle_Matrix_init(args.self)
    /\ UNCHANGED <<args, memvars, rhs, rvec>>

SouffleOpsStep ==
    \/ souffle_construct
    \/ eq

SpecSouffleOps == InitOps /\ [][SouffleOpsStep]_vars

\* C22: in the souffle variant a Matrix built from r >= 1 rows of equal
\* length c has n_rows = r, n_cols = c and data[i][j] equal to the input's
\* element (i, j), and Matrix(rows) == Matrix(other_rows) returns true only
\* when the two inputs are equal element by element.
ConstructionStoresElements ==
    /\ (ret.op = "Matrix" /\ Len(args.self) >= 1 /\ ~IsRagged(args.self)) =>
          IsMatrixOf(ret, Len(args.self), Len(args.self[1]), args.self)
    /\ (ret = RetBool("eq", TRUE)) => args.self = args.other

----------------------------------------------------------------------------
(* The souffle variant: a Vector and its n_elems attribute *)

\* Vector() and Vector(data): the argument of the constructor
NoData == [given |-> FALSE, data |-> << >>]
Data(data) == [given |-> TRUE, data |-> data]

\* self.data after Vector.__init__ (souffle): a new list in either case
souffle_Vector_data(arg) == IF arg.given THEN arg.data ELSE << >>

\* the attributes Vector.__init__ (souffle) has set on the object whose list
\* is at address a: without an argument it returns before n_elems is set
souffle_Vector_init(a, arg) ==
    IF arg.given THEN [data |-> a, n_elems |-> Len(arg.data)]
    ELSE [data |-> a]

\* the object has the attribute n_elems
HasCount(v) == "n_elems" \in DOMAIN v

\* the exception of a call that reads self.n_elems and then other.n_elems
ReadCounts(v, w) ==
    IF ~HasCount(v) \/ ~HasCount(w) THEN "AttributeError"
    ELSE IF v.n_elems # w.n_elems THEN ERR_OP_BAD_DIMS
    ELSE "none"

\* Vector.__eq__ (souffle)
souffle_Vector_eq(h, v, w) ==
    IF ReadCounts(v, w) # "none" THEN Fail("eq", ReadCounts(v, w))
    ELSE Vector_eq_loop(h[v.data], h[w.data], v.n_elems, 0)

\* [self[i] op other[i] for i in range(self.n_elems)]
RECURSIVE souffle_binary_loop(_, _, _, _, _)
souffle_binary_loop(op, s, t, n, i) ==
    IF i >= n THEN Loop("none", << >>)
    ELSE IF i >= Len(s) \/ i >= Len(t) THEN Loop("IndexError", << >>)
    ELSE LET rest == souffle_binary_loop(op, s, t, n, i + 1)
         IN  Loop(rest.exc, <<VecApply(op, s[i + 1], t[i + 1])>> \o rest.data)

\* Vector.__add__, Vector.__lt__ (souffle): the list of the returned Vector
souffle_Vector_binary(op, h, v, w) ==
    IF ReadCounts(v, w) # "none" THEN Loop(ReadCounts(v, w), << >>)
    ELSE souffle_binary_loop(op, h[v.data], h[w.data], v.n_elems, 0)

\* Vector.__getitem__ (souffle) with an integer key
souffle_Vector_getitem(h, v, key) ==
    IF key >= 0
    THEN IF key < Len(h[v.data]) THEN RetValue("getitem", h[v.data][key + 1])
         ELSE Fail("getitem", "IndexError")
    ELSE IF ~HasCount(v) THEN Fail("getitem", "AttributeError")
    ELSE LET p == PyIndex(Len(h[v.data]), v.n_elems + key)
         IN  IF p = 0 THEN Fail("getitem", "IndexError")
             ELSE RetValue("getitem", h[v.data][p])

\* Vector.dot_product (souffle)
souffle_Vector_dot_product(h, v, w, linalg) ==
    IF ReadCounts(v, w) # "none" THEN Fail("dot_product", ReadCounts(v, w))
    ELSE LET d == dot_product(h[v.data], h[w.data], linalg)
         IN  IF d.exc # "none" THEN Fail("dot_product", d.exc)
             ELSE RetValue("dot_product", d.value)

\* a call that returns r and no Vector
SouffleReturns(r) ==
    /\ ret' = r
    /\ rvec' = NoVector
    /\ heap' = [heap EXCEPT ![NewList] = << >>]
    /\ UNCHANGED <<vec, rhs, mat, caller, outcome, args, self, other>>

\* v == w
souffle_eq == SouffleReturns(souffle_Vector_eq(heap, vec, rhs))

\* v[key]
souffle_getitem(key) == SouffleReturns(souffle_Vector_getitem(heap, vec, key))

\* v.dot_product(w)
souffle_dot_product(linalg) ==
    SouffleReturns(souffle_Vector_dot_product(heap, vec, rhs, linalg))

\* v + w, v < w: the result is Vector(list), whose n_elems is set
souffle_binary(op) ==
    \E l \in {souffle_Vector_binary(op, heap, vec, rhs)} :
       IF l.exc # "none" THEN SouffleReturns(Fail(op, l.exc))
       ELSE /\ ret' = RetVector(op)
            /\ rvec' = souffle_Vector_init(NewList, Data(l.data))
            /\ heap' = [heap EXCEPT ![NewList] = souffle_Vector_data(Data(l.data))]
            /\ UNCHANGED <<vec, rhs, mat, caller, outcome, args, self, other>>

\* v.append(value)
souffle_append(value) ==
    /\ Len(heap[vec.data]) < MaxOperandLen
    /\ heap' = [heap EXCEPT ![vec.data] = Append(@, value), ![NewList] = << >>]
    /\ vec' = [data |-> vec.data, n_elems |-> Len(heap'[vec.data])]
    /\ ret' = Fail("append", "none")
    /\ rvec' = NoVector
    /\ UNCHANGED <<rhs, mat, caller, outcome, args, self, other>>

SouffleVectorStep ==
    \/ souffle_eq
    \/ \E key \in Indices : souffle_getitem(key)
    \/ \E linalg \in LinalgModes : souffle_dot_product(linalg)
    \/ \E op \in {"add", "lt"} : souffle_binary(op)
    \/ \E value \in OpElems : souffle_append(value)

ConstructorArgs(S) == {NoData} \cup { Data(d) : d \in S }

\* v = Vector() or Vector([...]); w = Vector() or Vector([...])
InitSouffleVector ==
    /\ \E a \in ConstructorArgs(OperandVectors), b \in ConstructorArgs(RightOperands) :
          /\ args = [self |-> a, other |-> b, binary |-> TRUE]
          /\ heap = [EmptyHeap EXCEPT ![1] = souffle_Vector_data(a),
                                      ![2] = souffle_Vector_data(b)]
          /\ vec = souffle_Vector_init(1, a)
          /\ rhs = souffle_Vector_init(2, b)
    /\ rvec = NoVector
    /\ mat = NoMatrix
    /\ caller = NoCaller
    /\ outcome = Returned("Vector")
    /\ self = Fail("none", "none")
    /\ other = Fail("none", "none")
    /\ ret = Fail("none", "none")

SpecSouffleVector == InitSouffleVector /\ [][SouffleVectorStep]_vars

\* C21: in the souffle variant a Vector constructed without data has n_elems
\* defined and equal to 0 = len(data), so ==, +, a comparison, a negative
\* index and dot_product read n_elems without failing on the missing
\* attribute, and Vector() == Vector() returns true.
EmptyVectorHasCount ==
    /\ ~args.self.given => (HasCount(vec) /\ vec.n_elems = Len(heap[vec.data]))
    /\ ~args.other.given => (HasCount(rhs) /\ rhs.n_elems = Len(heap[rhs.data]))
    /\ ret.exc # "AttributeError"
    /\ (ret.op = "eq" /\ heap[vec.data] = << >> /\ heap[rhs.data] = << >>) =>
          ret = RetBool("eq", TRUE)

====
